---- MODULE Spec2Model ----
(***************************************************************************)
(* The student-registration API service (Express handlers over one SQLite  *)
(* table and an in-memory session object).  Every database or bcrypt       *)
(* callback of a handler is one action; requests in flight interleave at   *)
(* callback granularity, as they do on the Node event loop.                *)
(* The web client (the React hooks useStudents and useStudentForm) is the   *)
(* second part: every continuation of an await is one action.              *)
(***************************************************************************)
EXTENDS Integers, Sequences, FiniteSets, Bags, TLC

VARIABLES
    students,   \* rows of table students
    seq,        \* sqlite_sequence of students: the largest id ever assigned
    sessions,   \* own properties of the object sessions: token -> email
    inflight,   \* bag of requests whose handler waits for a callback
    res,        \* the response sent last
    sent,       \* how many times the last step called res.json
    regpw,      \* history: id -> plaintext given to register, while the row is untouched
    authed,     \* history: token -> id of the row whose password matched when it was minted
    deleted,    \* history: id -> "was the id assigned when DELETE answered success"
    twice,      \* history: progress of an isolated pair of register calls
    started,    \* history: requests received so far
    answered,   \* history: responses sent so far
    stale,      \* history: tokens minted before the last restart and not since
    hookStudents,   \* useStudents: the state students of each instance of the hook
    hookError,      \* useStudents: the state error of each instance of the hook
    form,           \* useStudentForm: the state form
    editId,         \* useStudentForm: the state editId
    calls,          \* bag of calls of the hooks that wait for a promise
    plain,      \* history: password value stored by POST /api/students or PUT -> "tried at login"
    mints,      \* history: token -> "more than one login has produced it"
    landed,     \* history: per instance of useStudents, the list fetch that resolved last
    gone,       \* history: per instance, the ids deleted with success and no fetch issued since
    lastFailed  \* history: per instance, the call that was rejected last

server == <<students, seq, sessions, inflight, res, sent>>

history == <<regpw, authed, deleted, twice, started, answered, stale>>

client == <<hookStudents, hookError, form, editId, calls>>

log == <<plain, mints, landed, gone, lastFailed>>

vars == <<server, history, client, log>>

---------------------------------------------------------------------------
(* Bounds of the model *)

MaxId == 2          \* inserts stop once this id has been assigned
MaxTime == 1        \* Date.now() returns a value in 1..MaxTime
MaxSalt == 1        \* bcrypt draws its salt from 1..MaxSalt
MaxInFlight == 2    \* requests waiting for a callback at the same time
MaxRequests == 3    \* requests of a run in which every request is counted
MaxCalls == 2       \* calls of the hooks that wait for a promise at the same time

Ids == 1..MaxId
Times == 1..MaxTime
Salts == 1..MaxSalt

(* Request inputs.  Every field of a body is a string; "" is the value of an
   empty form field. *)
Emails == {"", "a@x.io"}
Passwords == {"pw1"}              \* passwords of request bodies
LoginPasswords == {"pw1", "pw2"}   \* passwords tried at login
People ==
    { [firstName |-> "Ann", lastName |-> "Lee", username |-> "ann", contact |-> "0911"],
      [firstName |-> "Bob", lastName |-> "Cruz", username |-> "bob", contact |-> "0922"] }

Bodies ==
    { [firstName |-> p.firstName, lastName |-> p.lastName, username |-> p.username,
       email |-> e, contact |-> p.contact, password |-> pw] :
         p \in People, e \in Emails, pw \in Passwords }

---------------------------------------------------------------------------
(* bcrypt.  A password column holds a string: the model keeps of a string
   whether it is a bcrypt hash string (with its cost and salt) and the text
   it was made of. *)

SALT_ROUNDS == 10

Text(p) == [bcrypt |-> FALSE, cost |-> 0, salt |-> 0, text |-> p]

\* the password passed on unhashed
BcryptHashNone(p, rounds, salt) == [bcrypt |-> FALSE, cost |-> 0, salt |-> 0, text |-> p]

BcryptHash(p, rounds, salt) == [bcrypt |-> TRUE, cost |-> rounds, salt |-> salt, text |-> p]

\* a comparison of the two strings
BcryptCompareText(p, stored) == stored.text = p

BcryptCompare(p, stored) == stored.bcrypt /\ stored.text = p

---------------------------------------------------------------------------
(* The table: CREATE TABLE students, and the statements the handlers run. *)

NewRow(id, body, pw) ==
    [id |-> id, firstName |-> body.firstName, lastName |-> body.lastName,
     username |-> body.username, email |-> body.email, contact |-> body.contact,
     password |-> pw]

RowIds(tbl) == {r.id : r \in tbl}

SelectByEmail(tbl, email) == {r \in tbl : r.email = email}

\* a table declared without UNIQUE on email
NoUniqueConstraint(tbl, email, id) == FALSE

\* email TEXT UNIQUE: a statement that would leave two rows with this email fails
UniqueViolation(tbl, email, id) == \E r \in tbl : r.email = email /\ r.id # id

\* a rowid without AUTOINCREMENT: one more than the largest id in the table
NextRowIdReuse(tbl, s) == IF tbl = {} THEN 1 ELSE (CHOOSE i \in RowIds(tbl) : \A j \in RowIds(tbl) : j <= i) + 1

\* id INTEGER PRIMARY KEY AUTOINCREMENT: one more than the largest id ever assigned
NextRowId(tbl, s) == s + 1

\* INSERT OR REPLACE instead of UPDATE ... WHERE id = ?
SqlUpsert(tbl, id, body) ==
    {r \in tbl : r.id # id} \cup {NewRow(id, body, Text(body.password))}

\* UPDATE students SET ... without WHERE id = ?
SqlUpdateAll(tbl, id, body) == {NewRow(r.id, body, Text(body.password)) : r \in tbl}

SqlUpdate(tbl, id, body) ==
    {IF r.id = id THEN NewRow(r.id, body, Text(body.password)) ELSE r : r \in tbl}

SqlDelete(tbl, id) == {r \in tbl : r.id # id}

\* the i-th row of a scan of the table: rows come in rowid order
RowAt(tbl, i) == CHOOSE r \in tbl : Cardinality({q \in tbl : q.id < r.id}) = i - 1

Columns(r) ==
    [id |-> r.id, firstName |-> r.firstName, lastName |-> r.lastName,
     email |-> r.email, contact |-> r.contact]

\* SELECT * FROM students
ProjectStar(tbl) == [i \in 1..Cardinality(tbl) |-> RowAt(tbl, i)]

\* SELECT id, firstName, lastName, email, contact FROM students
Project(tbl) == [i \in 1..Cardinality(tbl) |-> Columns(RowAt(tbl, i))]

---------------------------------------------------------------------------
(* Responses: the status code and the JSON body. *)

NoBody ==
    [message |-> "", error |-> FALSE, id |-> 0, token |-> "", profile |-> {},
     array |-> FALSE, rows |-> <<>>, status |-> ""]

Json(code, body) == [status |-> code, body |-> body]

Message(code, m) == Json(code, [NoBody EXCEPT !.message = m])

Failure(code, m) == Json(code, [NoBody EXCEPT !.message = m, !.error = TRUE])

NoResponse == Json(0, NoBody)

---------------------------------------------------------------------------
(* const sessions = {}: a plain object.  Reading sessions[key] finds an own
   property, else a property inherited from Object.prototype, else
   undefined. *)

ObjectPrototypeKeys == {"constructor", "__proto__"}

InheritedText(key) ==
    IF key = "constructor" THEN "function Object() { [native code] }" ELSE "[object Object]"

Undefined == [type |-> "undefined", text |-> ""]

SessionsGet(s, key) ==
    IF key \in DOMAIN s THEN [type |-> "string", text |-> s[key]]
    ELSE IF key \in ObjectPrototypeKeys THEN [type |-> "object", text |-> InheritedText(key)]
    ELSE Undefined

\* !email
Falsy(v) == v.type = "undefined" \/ (v.type = "string" /\ v.text = "")

\* one session at a time: the new entry replaces the others
SessionsPutOnly(s, token, email) == [k \in {token} |-> email]

SessionsPut(s, token, email) ==
    [k \in DOMAIN s \cup {token} |-> IF k = token THEN email ELSE s[k]]

\* a token made of the timestamp alone
TokenBare(email, now) == ToString(now)

\* `${email}-${Date.now()}`
Token(email, now) == email \o "-" \o ToString(now)

(* Authorization header values a client sends: every string login can mint,
   no header at all (the key is then "undefined"), and other strings. *)
AuthHeaders ==
    {Token(e, t) : e \in Emails, t \in Times}
        \cup {"undefined", "Bearer 123"} \cup ObjectPrototypeKeys

---------------------------------------------------------------------------
(* Requests in flight *)

Pending == BagToSet(inflight)

One(p) == SetToBag({p})

Inserting == [p \in {q \in Pending : q.op \in {"register", "create"}} |-> inflight[p]]

\* keeps seq within MaxId: a creation request is accepted while an id is left for it
IdLeft == seq + BagCardinality(Inserting) < MaxId

Await(p) ==
    /\ BagCardinality(inflight) < MaxInFlight
    /\ inflight' = inflight (+) One(p)

Finish(p) == inflight' = inflight (-) One(p)

\* res.status(...).json(...)
Send(r) == res' = r /\ sent' = 1

\* the step returns without a call of res.json: a callback will answer
Quiet == res' = res /\ sent' = 0

---------------------------------------------------------------------------
(* POST /api/register *)

RegisterDbError == Failure(500, "DB error")

UserExists == Message(400, "User already exists")

RegisterHashError == Failure(500, "Hash error")

RegisterInsertError == Failure(500, "Insert error")

Registered(id) == Json(200, [NoBody EXCEPT !.message = "Registered successfully", !.id = id])

\* register without the "already exists" branch
RegisterNoLookup(body, err) ==
    /\ IF err THEN Send(RegisterDbError) /\ UNCHANGED inflight
       ELSE /\ IdLeft
            /\ Await([op |-> "register", pc |-> "hash", body |-> body])
            /\ Quiet
    /\ UNCHANGED <<students, seq, sessions>>

\* the handler up to the callback of db.get
Register(body, err) ==
    /\ IF err THEN Send(RegisterDbError) /\ UNCHANGED inflight
       ELSE IF SelectByEmail(students, body.email) # {}
            THEN Send(UserExists) /\ UNCHANGED inflight
            ELSE /\ IdLeft
                 /\ Await([op |-> "register", pc |-> "hash", body |-> body])
                 /\ Quiet
    /\ UNCHANGED <<students, seq, sessions>>

\* a hashing failure that returns without answering
RegisterHashSilent(p, salt, err) ==
    /\ BagIn(p, inflight) /\ p.op = "register" /\ p.pc = "hash"
    /\ IF err THEN Quiet /\ Finish(p)
       ELSE /\ inflight' = (inflight (-) One(p)) (+)
                   One([op |-> "register", pc |-> "insert", body |-> p.body,
                        hash |-> BcryptHash(p.body.password, SALT_ROUNDS, salt)])
            /\ Quiet
    /\ UNCHANGED <<students, seq, sessions>>

\* the callback of bcrypt.hash
RegisterHash(p, salt, err) ==
    /\ BagIn(p, inflight) /\ p.op = "register" /\ p.pc = "hash"
    /\ IF err THEN Send(RegisterHashError) /\ Finish(p)
       ELSE /\ inflight' = (inflight (-) One(p)) (+)
                   One([op |-> "register", pc |-> "insert", body |-> p.body,
                        hash |-> BcryptHash(p.body.password, SALT_ROUNDS, salt)])
            /\ Quiet
    /\ UNCHANGED <<students, seq, sessions>>

\* an INSERT that leaves its row behind when it reports an error
RegisterInsertPartial(p, err) ==
    /\ BagIn(p, inflight) /\ p.op = "register" /\ p.pc = "insert"
    /\ Finish(p)
    /\ UNCHANGED sessions
    /\ LET body == p.body
           id == NextRowId(students, seq)
       IN  IF UniqueViolation(students, body.email, id)
           THEN Send(RegisterInsertError) /\ UNCHANGED <<students, seq>>
           ELSE /\ students' = students \cup {NewRow(id, body, p.hash)}
                /\ seq' = id
                /\ IF err THEN Send(RegisterInsertError) ELSE Send(Registered(id))

\* the callback of db.run(INSERT)
RegisterInsert(p, err) ==
    /\ BagIn(p, inflight) /\ p.op = "register" /\ p.pc = "insert"
    /\ Finish(p)
    /\ UNCHANGED sessions
    /\ LET body == p.body
           id == NextRowId(students, seq)
       IN  IF err \/ UniqueViolation(students, body.email, id)
           THEN Send(RegisterInsertError) /\ UNCHANGED <<students, seq>>
           ELSE /\ students' = students \cup {NewRow(id, body, p.hash)}
                /\ seq' = id
                /\ Send(Registered(id))

---------------------------------------------------------------------------
(* POST /api/login *)

LoginDbError == Failure(500, "DB error")

\* an unknown email answered differently from a wrong password
LoginNoUser404 == Message(404, "User not found")

LoginNoUser == Message(401, "Invalid credentials")

LoginMismatch == Message(401, "Invalid credentials")

LoggedIn(token) == Json(200, [NoBody EXCEPT !.token = token])

\* the handler up to the callback of db.get
Login(email, password, err) ==
    /\ IF err THEN Send(LoginDbError) /\ UNCHANGED inflight
       ELSE IF SelectByEmail(students, email) = {}
            THEN Send(LoginNoUser) /\ UNCHANGED inflight
            ELSE /\ \E user \in SelectByEmail(students, email) :
                      Await([op |-> "login", pc |-> "compare", email |-> email,
                             password |-> password,
                             user |-> [id |-> user.id, password |-> user.password]])
                 /\ Quiet
    /\ UNCHANGED <<students, seq, sessions>>

\* a login that stores the session before it looks at the result
LoginCompareAlways(p, now, err) ==
    /\ BagIn(p, inflight) /\ p.op = "login" /\ p.pc = "compare"
    /\ Finish(p)
    /\ UNCHANGED <<students, seq>>
    /\ LET email == p.email
           result == BcryptCompare(p.password, p.user.password)
           token == Token(email, now)
       IN  /\ sessions' = SessionsPut(sessions, token, email)
           /\ IF err \/ ~result THEN Send(LoginMismatch) ELSE Send(LoggedIn(token))

\* the callback of bcrypt.compare
LoginCompare(p, now, err) ==
    /\ BagIn(p, inflight) /\ p.op = "login" /\ p.pc = "compare"
    /\ Finish(p)
    /\ UNCHANGED <<students, seq>>
    /\ LET email == p.email
           result == BcryptCompare(p.password, p.user.password)
           token == Token(email, now)
       IN  IF err \/ ~result
           THEN Send(LoginMismatch) /\ UNCHANGED sessions
           ELSE /\ sessions' = SessionsPut(sessions, token, email)
                /\ Send(LoggedIn(token))

---------------------------------------------------------------------------
(* GET /api/profile *)

Unauthorized == Message(401, "Unauthorized")

ProfileDbError == Failure(500, "DB error")

UserNotFound == Message(404, "User not found")

ProfileOf(user) == Json(200, [NoBody EXCEPT !.profile = {user}])

\* the handler itself: it reads sessions and starts db.get
Profile(auth) ==
    /\ LET email == SessionsGet(sessions, auth)
       IN  IF Falsy(email)
           THEN Send(Unauthorized) /\ UNCHANGED inflight
           ELSE /\ Await([op |-> "profile", pc |-> "lookup", token |-> auth,
                          email |-> email.text])
                /\ Quiet
    /\ UNCHANGED <<students, seq, sessions>>

\* the callback of db.get
ProfileLookup(p, err) ==
    /\ BagIn(p, inflight) /\ p.op = "profile" /\ p.pc = "lookup"
    /\ Finish(p)
    /\ UNCHANGED <<students, seq, sessions>>
    /\ IF err THEN Send(ProfileDbError)
       ELSE IF SelectByEmail(students, p.email) = {}
            THEN Send(UserNotFound)
            ELSE \E user \in SelectByEmail(students, p.email) :
                     Send(ProfileOf(user))

---------------------------------------------------------------------------
(* GET /api/status *)

StatusBody == Json(200, [NoBody EXCEPT !.status = "Dummy backend with SQLite running"])

Status ==
    /\ Send(StatusBody)
    /\ UNCHANGED <<students, seq, sessions, inflight>>

---------------------------------------------------------------------------
(* POST /api/students *)

CreateDbError == Failure(500, "DB error")

StudentExists == Message(400, "Student already exists")

CreateInsertError == Failure(500, "Insert error")

Inserted(id) == Json(200, [NoBody EXCEPT !.message = "Student inserted", !.id = id])

\* a create that skips the lookup by email
CreateStudentNoLookup(body, err) ==
    /\ IF err THEN Send(CreateDbError) /\ UNCHANGED inflight
       ELSE /\ IdLeft
            /\ Await([op |-> "create", pc |-> "insert", body |-> body])
            /\ Quiet
    /\ UNCHANGED <<students, seq, sessions>>

\* the handler up to the callback of db.get
CreateStudent(body, err) ==
    /\ IF err THEN Send(CreateDbError) /\ UNCHANGED inflight
       ELSE IF SelectByEmail(students, body.email) # {}
            THEN Send(StudentExists) /\ UNCHANGED inflight
            ELSE /\ IdLeft
                 /\ Await([op |-> "create", pc |-> "insert", body |-> body])
                 /\ Quiet
    /\ UNCHANGED <<students, seq, sessions>>

\* the callback of db.run(INSERT)
CreateStudentInsert(p, err) ==
    /\ BagIn(p, inflight) /\ p.op = "create" /\ p.pc = "insert"
    /\ Finish(p)
    /\ UNCHANGED sessions
    /\ LET body == p.body
           id == NextRowId(students, seq)
       IN  IF err \/ UniqueViolation(students, body.email, id)
           THEN Send(CreateInsertError) /\ UNCHANGED <<students, seq>>
           ELSE /\ students' = students \cup {NewRow(id, body, Text(body.password))}
                /\ seq' = id
                /\ Send(Inserted(id))

---------------------------------------------------------------------------
(* GET /api/students *)

ListDbError == Failure(500, "DB error")

Listed(rows) == Json(200, [NoBody EXCEPT !.array = TRUE, !.rows = rows])

GetStudents(err) ==
    /\ IF err THEN Send(ListDbError) ELSE Send(Listed(Project(students)))
    /\ UNCHANGED <<students, seq, sessions, inflight>>

---------------------------------------------------------------------------
(* PUT /api/students/:id *)

UpdateError == Failure(500, "Update error")

Updated == Message(200, "Student updated successfully")

PutStudent(id, body, err) ==
    /\ IF err \/ (id \in RowIds(students) /\ UniqueViolation(students, body.email, id))
       THEN Send(UpdateError) /\ UNCHANGED students
       ELSE students' = SqlUpdate(students, id, body) /\ Send(Updated)
    /\ UNCHANGED <<seq, sessions, inflight>>

---------------------------------------------------------------------------
(* DELETE /api/students/:id *)

DeleteFailed == Failure(500, "Delete failed")

Deleted == Message(200, "Deleted successfully")

DeleteStudent(id, err) ==
    /\ IF err THEN Send(DeleteFailed) /\ UNCHANGED students
       ELSE students' = SqlDelete(students, id) /\ Send(Deleted)
    /\ UNCHANGED <<seq, sessions, inflight>>

---------------------------------------------------------------------------
(* The process is stopped and started again: db.js opens database.sqlite and
   runs CREATE TABLE IF NOT EXISTS, the server module makes a new object
   sessions.  Requests that waited for a callback are gone with the old
   process. *)

\* CREATE TABLE students: on an existing table the statement is an error and
\* a start-up script that drops the table first leaves it empty
CreateTableAnew(exists, tbl) == {}

CreateTableIfNotExists(exists, tbl) == IF exists THEN tbl ELSE {}

\* const sessions = {}
NewSessions == [k \in {} |-> ""]

Restart ==
    /\ students' = CreateTableIfNotExists(TRUE, students)
    /\ sessions' = NewSessions
    /\ inflight' = EmptyBag
    /\ Quiet
    /\ UNCHANGED seq

---------------------------------------------------------------------------
(* The web client: the hooks useStudents and useStudentForm.  The home page
   mounts two instances of useStudents: the one useStudentForm calls and the
   one StudentList calls.  A call of a hook function that awaits a request
   is in calls until its promise settles; what the server answers is an
   input of the step in which the request lands. *)

Inst == {"form", "list"}

EmptyForm ==
    [firstName |-> "", lastName |-> "", username |-> "", email |-> "", contact |-> "",
     password |-> ""]

\* editId: number | null
NoEdit == [null |-> TRUE, id |-> 0]

EditOf(id) == [null |-> FALSE, id |-> id]

\* error: string | null
NoError == [null |-> TRUE, message |-> ""]

Error(m) == [null |-> FALSE, message |-> m]

(* What a request settles with: the promise resolves with a response, or it
   rejects (no response, or a status the client rejects on). *)
Resolved(status, data) == [resolved |-> TRUE, status |-> status, data |-> data]

Rejected == [resolved |-> FALSE, status |-> 0, data |-> <<>>]

\* the lists GET /api/students can answer with
Snapshots ==
    LET ann == CHOOSE b \in Bodies : b.firstName = "Ann" /\ b.email = "a@x.io"
        bob == CHOOSE b \in Bodies : b.firstName = "Bob" /\ b.email = ""
        rows == {NewRow(1, ann, Text(ann.password)), NewRow(2, bob, Text(bob.password))}
    IN  {Project(tbl) : tbl \in SUBSET rows}

GetOutcomes == {Resolved(200, d) : d \in Snapshots} \cup {Rejected}

PostOutcomes == {Resolved(st, <<>>) : st \in {200, 400, 500}} \cup {Rejected}

PutOutcomes == {Resolved(st, <<>>) : st \in {200, 500}} \cup {Rejected}

DeleteOutcomes == {Resolved(st, <<>>) : st \in {200, 500}} \cup {Rejected}

\* what the user types into a field of the form
TypedNames == {"email"}

TypedValues == {"x"}

Waiting == BagToSet(calls)

CallOf(fn, pc, inst, id, student, submit) ==
    [fn |-> fn, pc |-> pc, inst |-> inst, id |-> id, student |-> student, submit |-> submit]

\* useEffect(() => { fetchStudents(); }, [])
MountFetch(i) == CallOf("fetchStudents", "fetch", i, 0, EmptyForm, FALSE)

Call(c) == BagCardinality(calls) < MaxCalls /\ calls' = calls (+) One(c)

\* the request of the call has landed and the call goes on to await the re-fetch
Refetch(c) == calls' = (calls (-) One(c)) (+) One([c EXCEPT !.pc = "fetch"])

\* the call returns; a handleSubmit that awaited it goes on
Settle(c) ==
    calls' = IF c.submit
             THEN (calls (-) One(c)) (+) One([c EXCEPT !.fn = "handleSubmit", !.pc = "reset"])
             ELSE calls (-) One(c)

SetStudents(i, list) == hookStudents' = [hookStudents EXCEPT ![i] = list]

\* an error slot that keeps the first message it was given
SetErrorFirst(i, m) ==
    hookError' = [hookError EXCEPT ![i] = IF hookError[i].null THEN Error(m) ELSE hookError[i]]

SetError(i, m) == hookError' = [hookError EXCEPT ![i] = Error(m)]

\* a fetch whose response is dropped when the instance already shows a list
fetchStudentsFirstWins(c, o) ==
    /\ BagIn(c, calls) /\ c.pc = "fetch"
    /\ IF o.resolved
       THEN /\ IF hookStudents[c.inst] = <<>>
               THEN SetStudents(c.inst, o.data) ELSE UNCHANGED hookStudents
            /\ UNCHANGED hookError
       ELSE SetError(c.inst, "Failed to fetch students") /\ UNCHANGED hookStudents
    /\ Settle(c)
    /\ UNCHANGED <<form, editId>>

\* the body of fetchStudents once api.get has settled
fetchStudents(c, o) ==
    /\ BagIn(c, calls) /\ c.pc = "fetch"
    /\ IF o.resolved
       THEN SetStudents(c.inst, o.data) /\ UNCHANGED hookError
       ELSE SetError(c.inst, "Failed to fetch students") /\ UNCHANGED hookStudents
    /\ Settle(c)
    /\ UNCHANGED <<form, editId>>

\* addStudent that re-fetches whatever the response was
addStudentAlways(c, o) ==
    /\ BagIn(c, calls) /\ c.fn = "addStudent" /\ c.pc = "request"
    /\ Refetch(c)
    /\ UNCHANGED <<hookStudents, hookError, form, editId>>

\* the body of addStudent once api.post has settled
addStudent(c, o) ==
    /\ BagIn(c, calls) /\ c.fn = "addStudent" /\ c.pc = "request"
    /\ IF o.resolved
       THEN IF o.status = 201 \/ o.status = 200
            THEN Refetch(c) /\ UNCHANGED hookError
            ELSE Settle(c) /\ UNCHANGED hookError
       ELSE SetError(c.inst, "Failed to register student") /\ Settle(c)
    /\ UNCHANGED <<hookStudents, form, editId>>

\* the body of updateStudent once api.put has settled
updateStudent(c, o) ==
    /\ BagIn(c, calls) /\ c.fn = "updateStudent" /\ c.pc = "request"
    /\ IF o.resolved
       THEN IF o.status = 200
            THEN Refetch(c) /\ UNCHANGED hookError
            ELSE Settle(c) /\ UNCHANGED hookError
       ELSE SetError(c.inst, "Failed to update student") /\ Settle(c)
    /\ UNCHANGED <<hookStudents, form, editId>>

\* a delete that drops the first entry of the list, whatever its id
FilterFirst(list, id) == IF list = <<>> THEN list ELSE Tail(list)

\* prev.filter((s) => s.id !== id)
Filter(list, id) == SelectSeq(list, LAMBDA s : s.id # id)

\* the Delete button of an entry of StudentList: deleteStudent(student.id) up to api.delete
deleteStudentClick(k) ==
    /\ k \in DOMAIN hookStudents["list"]
    /\ Call(CallOf("deleteStudent", "request", "list", hookStudents["list"][k].id,
                   EmptyForm, FALSE))
    /\ UNCHANGED <<hookStudents, hookError, form, editId>>

\* the body of deleteStudent once api.delete has settled
deleteStudent(c, o) ==
    /\ BagIn(c, calls) /\ c.fn = "deleteStudent" /\ c.pc = "request"
    /\ IF o.resolved
       THEN /\ IF o.status = 200
               THEN SetStudents(c.inst, Filter(hookStudents[c.inst], c.id))
               ELSE UNCHANGED hookStudents
            /\ UNCHANGED hookError
       ELSE SetError(c.inst, "Failed to delete student") /\ UNCHANGED hookStudents
    /\ Settle(c)
    /\ UNCHANGED <<form, editId>>

\* setForm((prev) => ({ ...prev, [name]: value }))
handleChange(name, value) ==
    /\ form' = [k \in DOMAIN form \cup {name} |-> IF k = name THEN value ELSE form[k]]
    /\ UNCHANGED <<hookStudents, hookError, editId, calls>>

\* the Update button of an entry of StudentList: setForm(student); setEditId(student.id)
editClick(k) ==
    /\ k \in DOMAIN hookStudents["list"]
    /\ form' = hookStudents["list"][k]
    /\ editId' = EditOf(hookStudents["list"][k].id)
    /\ UNCHANGED <<hookStudents, hookError, calls>>

\* a submit that always registers
handleSubmitAdd ==
    /\ Call(CallOf("addStudent", "request", "form", 0, form, TRUE))
    /\ UNCHANGED <<hookStudents, hookError, form, editId>>

\* handleSubmit up to its await
handleSubmit ==
    /\ IF ~editId.null
       THEN Call(CallOf("updateStudent", "request", "form", editId.id, form, TRUE))
       ELSE Call(CallOf("addStudent", "request", "form", 0, form, TRUE))
    /\ UNCHANGED <<hookStudents, hookError, form, editId>>

\* handleSubmit after its await: resetForm()
resetForm(c) ==
    /\ BagIn(c, calls) /\ c.fn = "handleSubmit" /\ c.pc = "reset"
    /\ form' = EmptyForm
    /\ editId' = NoEdit
    /\ calls' = calls (-) One(c)
    /\ UNCHANGED <<hookStudents, hookError>>

(* fetchStudents and deleteStudent as the hook returns them, called by a
   component: each runs up to its await. *)
useFetchStudents(i) ==
    /\ Call(CallOf("fetchStudents", "fetch", i, 0, EmptyForm, FALSE))
    /\ UNCHANGED <<hookStudents, hookError, form, editId>>

useDeleteStudent(i, id) ==
    /\ Call(CallOf("deleteStudent", "request", i, id, EmptyForm, FALSE))
    /\ UNCHANGED <<hookStudents, hookError, form, editId>>

---------------------------------------------------------------------------
(* History variables.  They record which requests were answered and how; no
   handler reads them. *)

NoMap == [k \in {} |-> 0]

MapPut(f, k, v) == [x \in DOMAIN f \cup {k} |-> IF x = k THEN v ELSE f[x]]

MapDrop(f, k) == [x \in DOMAIN f \ {k} |-> f[x]]

Idle == [phase |-> "idle", email |-> "", n0 |-> 0, id |-> 0]

\* twice: a register call that starts while nothing is in flight opens a pair;
\* a register call with the same email right after its success closes it
TwiceRegister(body, err) ==
    twice' =
        IF ~err /\ twice.phase = "once" /\ twice.email = body.email
        THEN [twice EXCEPT !.phase = "twice"]
        ELSE IF ~err /\ inflight = EmptyBag /\ inflight' # inflight
        THEN [phase |-> "first", email |-> body.email, n0 |-> Cardinality(students),
              id |-> 0]
        ELSE Idle

TwiceHash(err) == twice' = IF ~err /\ twice.phase = "first" THEN twice ELSE Idle

TwiceInsert(err) ==
    twice' = IF ~err /\ twice.phase = "first"
             THEN [twice EXCEPT !.phase = "once", !.id = res'.body.id]
             ELSE Idle

\* regpw: the plaintext a row was registered with, until a PUT or DELETE names the row
RegpwInsert(p) ==
    regpw' = IF seq' # seq THEN MapPut(regpw, seq', p.body.password) ELSE regpw

RegpwDrop(id) == regpw' = MapDrop(regpw, id)

\* authed: the row whose stored password matched when the token was minted
AuthedMint(p) ==
    authed' = IF sessions' # sessions \/ res'.body.token # ""
              THEN MapPut(authed, res'.body.token, p.user.id)
              ELSE authed

\* stale: the keys of sessions when the process stops, until login mints them again
StaleRestart == stale' = stale \cup DOMAIN sessions

StaleMint == stale' = stale \ DOMAIN sessions'

\* deleted: ids for which DELETE answered success, with whether the id had been assigned
DeletedMark(id) ==
    deleted' = IF res' = Deleted THEN MapPut(deleted, id, id <= seq) ELSE deleted

\* plain: the password values POST /api/students and PUT have stored, each with
\* whether a login that supplied that very value has reached bcrypt.compare
PlainWrite ==
    plain' = [v \in DOMAIN plain \cup {r.password : r \in students' \ students} |->
                 IF v \in DOMAIN plain THEN plain[v] ELSE FALSE]

PlainTry(p) ==
    plain' = IF p.user.password \in DOMAIN plain /\ p.user.password.text = p.password
             THEN [plain EXCEPT ![p.user.password] = TRUE]
             ELSE plain

\* mints: the tokens login has produced, each with whether it was produced
\* more than once
MintCount ==
    mints' = IF res'.body.token # ""
             THEN MapPut(mints, res'.body.token, res'.body.token \in DOMAIN mints)
             ELSE mints

\* landed: the list fetch of the instance that resolved last: the call it
\* belonged to, its response, whether it replaced the other list of an earlier
\* fetch, and whether a successful delete has filtered the state since
NoFetch == [any |-> FALSE, fn |-> "", data |-> <<>>, over |-> FALSE, filtered |-> FALSE]

LandedFetch(c, o) ==
    landed' = IF o.resolved
              THEN [landed EXCEPT ![c.inst] =
                       [any |-> TRUE, fn |-> c.fn, data |-> o.data,
                        over |-> landed[c.inst].any /\ landed[c.inst].data # o.data,
                        filtered |-> FALSE]]
              ELSE landed

LandedDelete(c, o) ==
    landed' = IF o.resolved /\ o.status = 200
              THEN [landed EXCEPT ![c.inst].filtered = TRUE]
              ELSE landed

\* gone: the ids whose delete has succeeded in the instance, until the instance
\* issues a list fetch (a fetch issued later reads the table after the delete)
GoneDelete(c, o) ==
    gone' = IF o.resolved /\ o.status = 200
            THEN [gone EXCEPT ![c.inst] = @ \cup {c.id}]
            ELSE gone

GoneFetch(i) == gone' = [gone EXCEPT ![i] = {}]

\* lastFailed: the message of the call of the instance whose request was
\* rejected last, and whether a request of the instance has succeeded since
FailureOf(c) ==
    IF c.pc = "fetch" THEN "Failed to fetch students"
    ELSE IF c.fn = "addStudent" THEN "Failed to register student"
    ELSE IF c.fn = "updateStudent" THEN "Failed to update student"
    ELSE "Failed to delete student"

NoFailure == [message |-> "", since |-> FALSE]

FailedCall(c, o) ==
    lastFailed' =
        IF ~o.resolved
        THEN [lastFailed EXCEPT ![c.inst] = [message |-> FailureOf(c), since |-> FALSE]]
        ELSE IF lastFailed[c.inst].message # "" /\ o.status \in {200, 201}
        THEN [lastFailed EXCEPT ![c.inst].since = TRUE]
        ELSE lastFailed

---------------------------------------------------------------------------
(* The service *)

Init ==
    /\ students = {}
    /\ seq = 0
    /\ sessions = NewSessions
    /\ inflight = EmptyBag
    /\ res = NoResponse
    /\ sent = 0
    /\ regpw = [k \in {} |-> ""]
    /\ authed = NoMap
    /\ deleted = [k \in {} |-> FALSE]
    /\ twice = Idle
    /\ started = 0
    /\ answered = 0
    /\ stale = {}
    /\ hookStudents = [i \in Inst |-> <<>>]
    /\ hookError = [i \in Inst |-> NoError]
    /\ form = EmptyForm
    /\ editId = NoEdit
    /\ calls = [c \in {MountFetch(i) : i \in Inst} |-> 1]
    /\ plain = [k \in {} |-> FALSE]
    /\ mints = [k \in {} |-> FALSE]
    /\ landed = [i \in Inst |-> NoFetch]
    /\ gone = [i \in Inst |-> {}]
    /\ lastFailed = [i \in Inst |-> NoFailure]

\* every endpoint
Next ==
    /\ UNCHANGED history
    /\ UNCHANGED client
    /\ UNCHANGED log
    /\ \/ \E body \in Bodies, err \in BOOLEAN : Register(body, err)
       \/ \E p \in Pending, salt \in Salts, err \in BOOLEAN : RegisterHash(p, salt, err)
       \/ \E p \in Pending, err \in BOOLEAN : RegisterInsert(p, err)
       \/ \E e \in Emails, p \in LoginPasswords, err \in BOOLEAN : Login(e, p, err)
       \/ \E p \in Pending, now \in Times, err \in BOOLEAN : LoginCompare(p, now, err)
       \/ \E auth \in AuthHeaders : Profile(auth)
       \/ \E p \in Pending, err \in BOOLEAN : ProfileLookup(p, err)
       \/ Status
       \/ \E body \in Bodies, err \in BOOLEAN : CreateStudent(body, err)
       \/ \E p \in Pending, err \in BOOLEAN : CreateStudentInsert(p, err)
       \/ \E err \in BOOLEAN : GetStudents(err)
       \/ \E id \in Ids, body \in Bodies, err \in BOOLEAN : PutStudent(id, body, err)
       \/ \E id \in Ids, err \in BOOLEAN : DeleteStudent(id, err)

Spec == Init /\ [][Next]_vars

\* clients that register, create, list, update and delete students
NextCrud ==
    /\ UNCHANGED client
    /\ UNCHANGED log
    /\ \/ \E body \in Bodies, err \in BOOLEAN :
              Register(body, err) /\ TwiceRegister(body, err) /\ UNCHANGED <<regpw, authed, deleted, started, answered, stale>>
       \/ \E p \in Pending, salt \in Salts, err \in BOOLEAN :
              RegisterHash(p, salt, err) /\ TwiceHash(err) /\ UNCHANGED <<regpw, authed, deleted, started, answered, stale>>
       \/ \E p \in Pending, err \in BOOLEAN :
              RegisterInsert(p, err) /\ TwiceInsert(err) /\ UNCHANGED <<regpw, authed, deleted, started, answered, stale>>
       \/ \E body \in Bodies, err \in BOOLEAN :
              CreateStudent(body, err) /\ twice' = Idle /\ UNCHANGED <<regpw, authed, deleted, started, answered, stale>>
       \/ \E p \in Pending, err \in BOOLEAN :
              CreateStudentInsert(p, err) /\ twice' = Idle /\ UNCHANGED <<regpw, authed, deleted, started, answered, stale>>
       \/ \E err \in BOOLEAN :
              GetStudents(err) /\ twice' = Idle /\ UNCHANGED <<regpw, authed, deleted, started, answered, stale>>
       \/ \E id \in Ids, body \in Bodies, err \in BOOLEAN :
              PutStudent(id, body, err) /\ twice' = Idle /\ UNCHANGED <<regpw, authed, deleted, started, answered, stale>>
       \/ \E id \in Ids, err \in BOOLEAN :
              DeleteStudent(id, err) /\ DeletedMark(id) /\ twice' = Idle
                  /\ UNCHANGED <<regpw, authed, started, answered, stale>>

SpecCrud == Init /\ [][NextCrud]_vars

\* clients that register, log in, read their profile, update and delete;
\* their bodies differ in email and password only
AuthBodies == {b \in Bodies : b.firstName = "Ann"}

NextAuth ==
    /\ UNCHANGED client
    /\ UNCHANGED log
    /\ \/ \E body \in AuthBodies, err \in BOOLEAN :
              Register(body, err) /\ UNCHANGED history
       \/ \E p \in Pending, salt \in Salts, err \in BOOLEAN :
              RegisterHash(p, salt, err) /\ UNCHANGED history
       \/ \E p \in Pending, err \in BOOLEAN :
              RegisterInsert(p, err) /\ RegpwInsert(p) /\ UNCHANGED <<authed, deleted, twice, started, answered, stale>>
       \/ \E e \in Emails, p \in LoginPasswords, err \in BOOLEAN :
              Login(e, p, err) /\ UNCHANGED history
       \/ \E p \in Pending, now \in Times, err \in BOOLEAN :
              LoginCompare(p, now, err) /\ AuthedMint(p) /\ UNCHANGED <<regpw, deleted, twice, started, answered, stale>>
       \/ \E auth \in AuthHeaders :
              Profile(auth) /\ UNCHANGED history
       \/ \E p \in Pending, err \in BOOLEAN :
              ProfileLookup(p, err) /\ UNCHANGED history
       \/ \E id \in Ids, body \in AuthBodies, err \in BOOLEAN :
              PutStudent(id, body, err) /\ RegpwDrop(id) /\ UNCHANGED <<authed, deleted, twice, started, answered, stale>>
       \/ \E id \in Ids, err \in BOOLEAN :
              DeleteStudent(id, err) /\ RegpwDrop(id) /\ UNCHANGED <<authed, deleted, twice, started, answered, stale>>

SpecAuth == Init /\ [][NextAuth]_vars

\* started and answered: every request received and every res.json call counted
Count == answered' = answered + sent'

Receive == started < MaxRequests /\ started' = started + 1 /\ Count

\* the handlers, run when a request arrives
Requests ==
    /\ UNCHANGED client
    /\ UNCHANGED log
    /\ UNCHANGED <<regpw, authed, deleted, twice, stale>>
    /\ \/ \E body \in Bodies, err \in BOOLEAN : Register(body, err)
       \/ \E e \in Emails, p \in LoginPasswords, err \in BOOLEAN : Login(e, p, err)
       \/ \E auth \in AuthHeaders : Profile(auth)
       \/ Status
       \/ \E body \in Bodies, err \in BOOLEAN : CreateStudent(body, err)
       \/ \E err \in BOOLEAN : GetStudents(err)
       \/ \E id \in Ids, body \in Bodies, err \in BOOLEAN : PutStudent(id, body, err)
       \/ \E id \in Ids, err \in BOOLEAN : DeleteStudent(id, err)
    /\ Receive

\* the callbacks, run when sqlite3 or bcrypt has finished a call
Callbacks ==
    /\ UNCHANGED client
    /\ UNCHANGED log
    /\ UNCHANGED <<regpw, authed, deleted, twice, started, stale>>
    /\ \/ \E p \in Pending, salt \in Salts, err \in BOOLEAN : RegisterHash(p, salt, err)
       \/ \E p \in Pending, err \in BOOLEAN : RegisterInsert(p, err)
       \/ \E p \in Pending, now \in Times, err \in BOOLEAN : LoginCompare(p, now, err)
       \/ \E p \in Pending, err \in BOOLEAN : ProfileLookup(p, err)
       \/ \E p \in Pending, err \in BOOLEAN : CreateStudentInsert(p, err)
    /\ Count

NextLive == Requests \/ Callbacks

\* sqlite3 and bcrypt call every callback they were given, with an error or a result
SpecLive == Init /\ [][NextLive]_vars /\ WF_vars(Callbacks)

\* clients that register, log in and read their profile, around restarts of the process
NextRestart ==
    /\ UNCHANGED client
    /\ UNCHANGED log
    /\ \/ \E body \in AuthBodies, err \in BOOLEAN :
              Register(body, err) /\ UNCHANGED history
       \/ \E p \in Pending, salt \in Salts, err \in BOOLEAN :
              RegisterHash(p, salt, err) /\ UNCHANGED history
       \/ \E p \in Pending, err \in BOOLEAN :
              RegisterInsert(p, err) /\ UNCHANGED history
       \/ \E e \in Emails, p \in LoginPasswords, err \in BOOLEAN :
              Login(e, p, err) /\ UNCHANGED history
       \/ \E p \in Pending, now \in Times, err \in BOOLEAN :
              LoginCompare(p, now, err) /\ StaleMint
                  /\ UNCHANGED <<regpw, authed, deleted, twice, started, answered>>
       \/ \E auth \in AuthHeaders :
              Profile(auth) /\ UNCHANGED history
       \/ \E p \in Pending, err \in BOOLEAN :
              ProfileLookup(p, err) /\ UNCHANGED history
       \/ Restart /\ StaleRestart
              /\ UNCHANGED <<regpw, authed, deleted, twice, started, answered>>

SpecRestart == Init /\ [][NextRestart]_vars

\* clients that register and log in, and updates with any body
NextPut ==
    /\ UNCHANGED client
    /\ UNCHANGED log
    /\ UNCHANGED history
    /\ \/ \E body \in AuthBodies, err \in BOOLEAN : Register(body, err)
       \/ \E p \in Pending, salt \in Salts, err \in BOOLEAN : RegisterHash(p, salt, err)
       \/ \E p \in Pending, err \in BOOLEAN : RegisterInsert(p, err)
       \/ \E e \in Emails, p \in LoginPasswords, err \in BOOLEAN : Login(e, p, err)
       \/ \E p \in Pending, now \in Times, err \in BOOLEAN : LoginCompare(p, now, err)
       \/ \E id \in Ids, body \in Bodies, err \in BOOLEAN : PutStudent(id, body, err)

SpecPut == Init /\ [][NextPut]_vars

\* the home page: the user types, submits, and clicks Update and Delete in the
\* list, while requests land
NextHook ==
    /\ UNCHANGED server
    /\ UNCHANGED history
    /\ UNCHANGED <<plain, mints, landed, gone>>
    /\ \/ \E name \in TypedNames, value \in TypedValues :
              handleChange(name, value) /\ UNCHANGED lastFailed
       \/ handleSubmit /\ UNCHANGED lastFailed
       \/ \E c \in Waiting, o \in PostOutcomes :
              addStudent(c, o) /\ FailedCall(c, o)
       \/ \E c \in Waiting, o \in PutOutcomes :
              updateStudent(c, o) /\ FailedCall(c, o)
       \/ \E c \in Waiting, o \in GetOutcomes :
              fetchStudents(c, o) /\ FailedCall(c, o)
       \/ \E c \in Waiting : resetForm(c) /\ UNCHANGED lastFailed
       \/ \E k \in 1..MaxId : editClick(k) /\ UNCHANGED lastFailed
       \/ \E k \in 1..MaxId : deleteStudentClick(k) /\ UNCHANGED lastFailed
       \/ \E c \in Waiting, o \in DeleteOutcomes :
              deleteStudent(c, o) /\ FailedCall(c, o)

SpecHook == Init /\ [][NextHook]_vars

\* the home page where the user submits the form as it is and clicks Delete in
\* the list, with the record of the list fetch that resolved last
NextLand ==
    /\ UNCHANGED server
    /\ UNCHANGED history
    /\ UNCHANGED <<plain, mints, gone>>
    /\ \/ handleSubmit /\ UNCHANGED <<landed, lastFailed>>
       \/ \E c \in Waiting, o \in PostOutcomes :
              addStudent(c, o) /\ FailedCall(c, o) /\ UNCHANGED landed
       \/ \E c \in Waiting, o \in GetOutcomes :
              fetchStudents(c, o) /\ FailedCall(c, o) /\ LandedFetch(c, o)
       \/ \E c \in Waiting : resetForm(c) /\ UNCHANGED <<landed, lastFailed>>
       \/ \E k \in 1..MaxId : deleteStudentClick(k) /\ UNCHANGED <<landed, lastFailed>>
       \/ \E c \in Waiting, o \in DeleteOutcomes :
              deleteStudent(c, o) /\ FailedCall(c, o) /\ LandedDelete(c, o)

SpecLand == Init /\ [][NextLand]_vars

\* components that call fetchStudents and deleteStudent of their instance of
\* useStudents, in any order, while requests land
NextUse ==
    /\ UNCHANGED server
    /\ UNCHANGED history
    /\ UNCHANGED <<plain, mints, landed, lastFailed>>
    /\ \/ \E i \in Inst : useFetchStudents(i) /\ GoneFetch(i)
       \/ \E i \in Inst, id \in Ids : useDeleteStudent(i, id) /\ UNCHANGED gone
       \/ \E c \in Waiting, o \in GetOutcomes : fetchStudents(c, o) /\ UNCHANGED gone
       \/ \E c \in Waiting, o \in DeleteOutcomes : deleteStudent(c, o) /\ GoneDelete(c, o)

SpecUse == Init /\ [][NextUse]_vars

\* clients that register and create students, log in, and update
NextPlain ==
    /\ UNCHANGED client
    /\ UNCHANGED history
    /\ UNCHANGED <<mints, landed, gone, lastFailed>>
    /\ \/ \E body \in AuthBodies, err \in BOOLEAN : Register(body, err) /\ UNCHANGED plain
       \/ \E p \in Pending, salt \in Salts, err \in BOOLEAN :
              RegisterHash(p, salt, err) /\ UNCHANGED plain
       \/ \E p \in Pending, err \in BOOLEAN : RegisterInsert(p, err) /\ UNCHANGED plain
       \/ \E body \in AuthBodies, err \in BOOLEAN : CreateStudent(body, err) /\ UNCHANGED plain
       \/ \E p \in Pending, err \in BOOLEAN : CreateStudentInsert(p, err) /\ PlainWrite
       \/ \E e \in Emails, p \in LoginPasswords, err \in BOOLEAN :
              Login(e, p, err) /\ UNCHANGED plain
       \/ \E p \in Pending, now \in Times, err \in BOOLEAN :
              LoginCompare(p, now, err) /\ PlainTry(p)
       \/ \E id \in Ids, body \in AuthBodies, err \in BOOLEAN :
              PutStudent(id, body, err) /\ PlainWrite

SpecPlain == Init /\ [][NextPlain]_vars

\* clients that register and log in
NextMint ==
    /\ UNCHANGED client
    /\ UNCHANGED history
    /\ UNCHANGED <<plain, landed, gone, lastFailed>>
    /\ \/ \E body \in AuthBodies, err \in BOOLEAN : Register(body, err) /\ UNCHANGED mints
       \/ \E p \in Pending, salt \in Salts, err \in BOOLEAN :
              RegisterHash(p, salt, err) /\ UNCHANGED mints
       \/ \E p \in Pending, err \in BOOLEAN : RegisterInsert(p, err) /\ UNCHANGED mints
       \/ \E e \in Emails, p \in LoginPasswords, err \in BOOLEAN :
              Login(e, p, err) /\ UNCHANGED mints
       \/ \E p \in Pending, now \in Times, err \in BOOLEAN :
              LoginCompare(p, now, err) /\ MintCount
       \/ \E id \in Ids, err \in BOOLEAN : DeleteStudent(id, err) /\ UNCHANGED mints

SpecMint == Init /\ [][NextMint]_vars

---------------------------------------------------------------------------
(* Properties of the student records (checked under SpecCrud) *)

Is(r, code, m) == r.status = code /\ r.body.message = m

\* C1: in every reachable state no two stored student records have the same
\* email, whatever register, create, update and delete requests interleave.
C1_EmailUnique == \A r1, r2 \in students : r1.email = r2.email => r1 = r2

\* two records are stored and a request with a stored email was just refused
C1_Witness ==
    /\ Cardinality(students) = 2
    /\ Is(res, 400, "User already exists") \/ Is(res, 400, "Student already exists")

\* C2: two register calls with the same email, the second starting after the
\* first has responded and nothing else running: the first answers success
\* with the id of the new row, the second answers 400 "User already exists",
\* and the table has exactly one row more than before the first call.
C2_RegisterTwice ==
    /\ twice.phase = "once" =>
          /\ Is(res, 200, "Registered successfully")
          /\ res.body.id = twice.id
          /\ \E r \in students : r.id = twice.id /\ r.email = twice.email
          /\ Cardinality(students) = twice.n0 + 1
    /\ twice.phase = "twice" =>
          /\ Is(res, 400, "User already exists")
          /\ Cardinality(students) = twice.n0 + 1

C2_Witness == twice.phase = "twice"

\* C9: a PUT whose id matches no row answers 200 "Student updated
\* successfully" and leaves the table as it was, so that the same call
\* repeated meets the same state and answers the same.
C9_UpdateMissing ==
    [][\A id \in Ids, body \in Bodies :
          (PutStudent(id, body, FALSE) /\ id \notin RowIds(students)) =>
              /\ Is(res', 200, "Student updated successfully")
              /\ students' = students
              /\ id \notin RowIds(students')]_vars

\* a PUT was answered with success while no row has ever been inserted
C9_Witness == seq = 0 /\ Is(res, 200, "Student updated successfully")

\* C10 as stated: once DELETE of an id has answered success, no later list
\* holds an entry with that id, and a further DELETE of the id answers
\* success and changes no row.
C10_DeletedStaysGone ==
    [][/\ GetStudents(FALSE) =>
             \A i \in DOMAIN res'.body.rows : res'.body.rows[i].id \notin DOMAIN deleted
       /\ \A id \in DOMAIN deleted :
             DeleteStudent(id, FALSE) =>
                 Is(res', 200, "Deleted successfully") /\ students' = students]_vars

\* C10, amended: once DELETE of an id that had been assigned to a record has
\* answered success, no later list holds an entry with that id, and a
\* further DELETE of the id answers success and changes no row.
C10_DeletedAssignedStaysGone ==
    [][/\ GetStudents(FALSE) =>
             \A i \in DOMAIN res'.body.rows :
                 res'.body.rows[i].id \in DOMAIN deleted => ~deleted[res'.body.rows[i].id]
       /\ \A id \in DOMAIN deleted :
             (deleted[id] /\ DeleteStudent(id, FALSE)) =>
                 Is(res', 200, "Deleted successfully") /\ students' = students]_vars

\* a list was answered with the remaining record after another was deleted
C10_Witness ==
    /\ \E id \in DOMAIN deleted : deleted[id]
    /\ res.body.array /\ res.body.rows # <<>>

\* C11: GET /api/students answers with exactly one entry for every stored
\* row and no other entry, each entry carrying the row's id, firstName,
\* lastName, email and contact and no other field (never password); when
\* the response sent last was a successful register, the id it returned is
\* the id of exactly one entry.
C11_ListOnePerRow ==
    [][GetStudents(FALSE) =>
          LET rows == res'.body.rows
          IN  /\ res'.status = 200 /\ res'.body.array
              /\ \A r \in students :
                    Cardinality({i \in DOMAIN rows : rows[i].id = r.id}) = 1
              /\ \A i \in DOMAIN rows :
                    /\ DOMAIN rows[i] = {"id", "firstName", "lastName", "email", "contact"}
                    /\ \E r \in students :
                          /\ rows[i].id = r.id
                          /\ rows[i].firstName = r.firstName
                          /\ rows[i].lastName = r.lastName
                          /\ rows[i].email = r.email
                          /\ rows[i].contact = r.contact
              /\ Is(res, 200, "Registered successfully") =>
                    Cardinality({i \in DOMAIN rows : rows[i].id = res.body.id}) = 1]_vars

\* a list of two entries was answered, one of them for a registered record
C11_Witness ==
    /\ res.body.array /\ Len(res.body.rows) = 2
    /\ \E r \in students : r.password.bcrypt /\ \E i \in DOMAIN res.body.rows : res.body.rows[i].id = r.id

\* C17: when the insert of a creation request (register or students-create)
\* runs while a row already holds its email, the other request having
\* inserted it after this request's lookup, no row is inserted and the
\* request is answered with the 400 "already exists" response.
C17_RaceAnsweredConflict ==
    [][\A q \in Pending :
          (/\ RegisterInsert(q, FALSE) \/ CreateStudentInsert(q, FALSE)
           /\ SelectByEmail(students, q.body.email) # {}) =>
              /\ students' = students
              /\ res'.status = 400
              /\ res'.body.message \in {"User already exists", "Student already exists"}]_vars

---------------------------------------------------------------------------
(* Properties of login, the session object and profile (checked under
   SpecAuth) *)

\* C3: a login with an email that has no record and a login with an existing
\* email whose password does not match are answered alike, with 401
\* "Invalid credentials" and nothing else in the body, and neither adds an
\* entry to the session object.
C3_LoginFailuresAlike ==
    [][/\ \A e \in Emails, p \in LoginPasswords :
             (Login(e, p, FALSE) /\ SelectByEmail(students, e) = {}) =>
                 /\ res' = Json(401, [NoBody EXCEPT !.message = "Invalid credentials"])
                 /\ sessions' = sessions
       /\ \A q \in Pending, now \in Times, err \in BOOLEAN :
             (/\ LoginCompare(q, now, err)
              /\ ~BcryptCompare(q.password, q.user.password)) =>
                 /\ res' = Json(401, [NoBody EXCEPT !.message = "Invalid credentials"])
                 /\ sessions' = sessions]_vars

\* every email has a record, so the 401 sent last answered a wrong password
C3_Witness ==
    /\ Is(res, 401, "Invalid credentials")
    /\ \A e \in Emails : SelectByEmail(students, e) # {}
    /\ DOMAIN sessions = {}

\* the row a profile request with this header is to return: the token was
\* minted for a row that register created and no PUT or DELETE has named
Resolves(auth, r) ==
    /\ auth \in DOMAIN authed /\ auth \in DOMAIN sessions
    /\ authed[auth] \in DOMAIN regpw
    /\ r \in students /\ r.id = authed[auth] /\ r.email = sessions[auth]

\* C4: after register(e, p) has answered id i and login(e, p) has answered
\* token t, a profile request carrying t, with no update or delete of record
\* i so far, is answered with the stored record whose id is i and whose
\* email is e.
C4_TokenResolves ==
    [][/\ \A auth \in AuthHeaders, r \in students :
             (Resolves(auth, r) /\ Profile(auth)) => res' = res /\ inflight' # inflight
       /\ \A q \in Pending, r \in students :
             (ProfileLookup(q, FALSE) /\ Resolves(q.token, r)) =>
                 res'.status = 200 /\ res'.body.profile = {r}]_vars

\* C5: a profile request whose Authorization value no successful login has
\* returned (no header, or any other string) is answered 401 "Unauthorized"
\* and with no record.
C5_UnknownTokenUnauthorized ==
    [][\A auth \in AuthHeaders :
          (Profile(auth) /\ auth \notin DOMAIN sessions) =>
              /\ res' = Json(401, [NoBody EXCEPT !.message = "Unauthorized"])
              /\ inflight' = inflight]_vars

\* the token was minted for a row that has been deleted, and no row has its email
Orphaned(auth) ==
    /\ auth \in DOMAIN authed /\ auth \in DOMAIN sessions
    /\ authed[auth] \notin RowIds(students)
    /\ SelectByEmail(students, sessions[auth]) = {}

\* C6: a profile request with a token minted for email e, when the record
\* has been deleted and no record has email e, is answered 404 "User not
\* found": not 401, and not a record.
C6_DeletedUserNotFound ==
    [][/\ \A auth \in AuthHeaders :
             (Orphaned(auth) /\ Profile(auth)) => res' = res /\ inflight' # inflight
       /\ \A q \in Pending :
             (ProfileLookup(q, FALSE) /\ Orphaned(q.token)) =>
                 res' = Json(404, [NoBody EXCEPT !.message = "User not found"])]_vars

\* the stored password of a registered row: a bcrypt hash string of the
\* plaintext p with the fixed cost and a salt, and not p itself
SaltedHashOf(stored, p) ==
    /\ stored.bcrypt /\ stored.cost = SALT_ROUNDS /\ stored.salt \in Salts
    /\ stored.text = p
    /\ stored # Text(p)

\* C7: after register(e, p) has succeeded, and while no PUT or DELETE has
\* named the record, the password stored for the record is the salted hash
\* of p, never p itself, and a login with e and p is answered with a token
\* that is then a key of the session object.
C7_RegisterThenLogin ==
    /\ [](\A i \in DOMAIN regpw :
             \E r \in students : r.id = i /\ SaltedHashOf(r.password, regpw[i]))
    /\ [][/\ \A i \in DOMAIN regpw, r \in students, p \in LoginPasswords :
                (r.id = i /\ regpw[i] = p /\ Login(r.email, p, FALSE)) =>
                    res' = res /\ inflight' # inflight
          /\ \A q \in Pending, now \in Times :
                (/\ LoginCompare(q, now, FALSE)
                 /\ q.user.id \in DOMAIN regpw
                 /\ regpw[q.user.id] = q.password) =>
                    /\ res' = Json(200, [NoBody EXCEPT !.token = Token(q.email, now)])
                    /\ res'.body.token \in DOMAIN sessions'
                    /\ sessions'[res'.body.token] = q.email]_vars

\* a login was answered with a token for a record that register created
C7_Witness ==
    /\ res.status = 200 /\ res.body.token # ""
    /\ \E r \in students : r.id \in DOMAIN regpw /\ res.body.token \in DOMAIN authed
                             /\ authed[res.body.token] = r.id

\* C8: a token that is a key of the session object is a key of it in every
\* later state, whatever requests follow, the deletion of the user's record
\* included.
C8_SessionsOnlyGrow == [][\A t \in DOMAIN sessions : t \in DOMAIN sessions']_vars

\* two tokens are held and the table has been emptied by DELETE requests
C8_Witness ==
    /\ Cardinality(DOMAIN sessions) = 2
    /\ students = {} /\ Is(res, 200, "Deleted successfully")

---------------------------------------------------------------------------
(* Properties of the handlers as a whole (checked under SpecLive) *)

\* C12: every request received is answered exactly once, whatever result or
\* error each database and bcrypt callback gets: no step calls res.json
\* twice, the requests received are those answered plus those that wait for
\* a callback, and every request received is eventually answered.
C12_AnsweredExactlyOnce ==
    /\ [](sent <= 1 /\ answered + BagCardinality(inflight) = started)
    /\ \A n \in 1..MaxRequests : [](started >= n => <>(answered >= n))

\* all requests of the run are answered, the last one with an error of a callback
C12_Witness ==
    /\ started = MaxRequests /\ answered = MaxRequests
    /\ res = RegisterInsertError

---------------------------------------------------------------------------
(* Properties of a restart (checked under SpecRestart) *)

\* C13: a restart keeps every stored student record (and the ids assigned
\* so far), and after it a profile request with a token that was minted
\* before the restart, and not by a login since, is answered 401
\* "Unauthorized".
C13_RestartDropsSessions ==
    [][/\ Restart => students' = students /\ seq' = seq
       /\ \A auth \in stale :
             Profile(auth) =>
                 /\ res' = Json(401, [NoBody EXCEPT !.message = "Unauthorized"])
                 /\ inflight' = inflight]_vars

\* after a restart a token of the old process was refused while its record is stored
C13_Witness ==
    /\ stale # {} /\ Is(res, 401, "Unauthorized") /\ DOMAIN sessions = {}
    /\ \E t \in stale, r \in students : r.email # "" /\ t = Token(r.email, 1)

---------------------------------------------------------------------------
(* Properties of the hooks (checked under SpecHook) *)

\* the response has a success status
Success(o) == o.resolved /\ o.status \in 200..299

\* GET /api/students requests of the hooks that have not landed
Fetches(b) == BagCardinality([c \in {d \in BagToSet(b) : d.pc = "fetch"} |-> b[c]])

\* C14: when the request of addStudent or updateStudent lands with a success
\* status the call issues one GET /api/students, and when that GET is
\* answered the students state of the instance is the list it answered
\* with; when the request lands with another status or fails, no GET is
\* issued; in both cases the landing of the request leaves students as it was.
C14_RefetchOnSuccess ==
    [][/\ \A c \in Waiting, o \in PostOutcomes \cup PutOutcomes :
             (addStudent(c, o) \/ updateStudent(c, o)) =>
                 /\ hookStudents' = hookStudents
                 /\ IF Success(o)
                    THEN /\ Fetches(calls') = Fetches(calls) + 1
                         /\ BagIn([c EXCEPT !.pc = "fetch"], calls')
                    ELSE Fetches(calls') = Fetches(calls)
       /\ \A c \in Waiting, o \in GetOutcomes :
             (fetchStudents(c, o) /\ c.fn \in {"addStudent", "updateStudent"} /\ o.resolved) =>
                 hookStudents'[c.inst] = o.data]_vars

\* the fetch on mount of the form's instance has not landed, so the list the
\* instance holds was answered to the re-fetch of a submitted call
C14_Witness ==
    /\ BagIn(MountFetch("form"), calls)
    /\ hookStudents["form"] # <<>>
    /\ \E c \in Waiting : c.fn = "handleSubmit" /\ c.pc = "reset"

\* C15: when the request of deleteStudent(id) lands with status 200, the
\* students state of the instance loses the entries whose id is id and keeps
\* every other entry, in the same order, and no GET /api/students is
\* issued; when it lands otherwise the students state is unchanged.
C15_DeleteFiltersLocally ==
    [][\A c \in Waiting, o \in DeleteOutcomes :
          deleteStudent(c, o) =>
              LET old == hookStudents[c.inst]
                  new == hookStudents'[c.inst]
                  kept == {i \in DOMAIN old : old[i].id # c.id}
              IN  /\ Fetches(calls') = Fetches(calls)
                  /\ \A i \in Inst \ {c.inst} : hookStudents'[i] = hookStudents[i]
                  /\ IF o.resolved /\ o.status = 200
                     THEN /\ Len(new) = Cardinality(kept)
                          /\ \A i \in kept :
                                new[Cardinality({j \in kept : j <= i})] = old[i]
                     ELSE new = old]_vars

\* the list instance fetches once, on mount: an entry for which a delete
\* still waits has left the list through another delete of the same id
C15_Witness ==
    /\ Len(hookStudents["list"]) = 1
    /\ \E c \in Waiting :
          c.fn = "deleteStudent" /\ c.id # hookStudents["list"][1].id

\* handleSubmit calls that await addStudent or updateStudent, or are about to reset
Submits(b) == BagCardinality([c \in {d \in BagToSet(b) : d.submit} |-> b[c]])

\* C16: handleSubmit calls updateStudent(editId, form) when editId is not
\* null and addStudent(form) when it is null; whatever the requests of that
\* call land with, handleSubmit goes on once the call has settled, and it
\* then sets every field of form to "" and editId to null.
C16_SubmitThenReset ==
    [][/\ handleSubmit =>
             calls' = calls (+) One(IF editId.null
                                    THEN CallOf("addStudent", "request", "form", 0, form, TRUE)
                                    ELSE CallOf("updateStudent", "request", "form",
                                                editId.id, form, TRUE))
       /\ \A c \in Waiting, o \in PostOutcomes \cup PutOutcomes \cup GetOutcomes :
             (/\ c.submit
              /\ addStudent(c, o) \/ updateStudent(c, o) \/ fetchStudents(c, o)) =>
                 /\ Submits(calls') = Submits(calls)
                 /\ (c.pc = "fetch" \/ ~Success(o)) =>
                        BagIn([c EXCEPT !.fn = "handleSubmit", !.pc = "reset"], calls')
                 /\ form' = form /\ editId' = editId
       /\ \A c \in Waiting :
             resetForm(c) =>
                 /\ \A k \in DOMAIN form' : form'[k] = ""
                 /\ DOMAIN form' = {"firstName", "lastName", "username", "email", "contact",
                                    "password"}
                 /\ editId'.null
                 /\ Submits(calls') = Submits(calls) - 1]_vars

\* an update was submitted and failed, and the form and editId have been reset
C16_Witness ==
    /\ hookError["form"] = Error("Failed to update student")
    /\ form = EmptyForm /\ editId = NoEdit
    /\ Submits(calls) = 0

---------------------------------------------------------------------------
(* Properties of tokens and updates *)

\* C18 (checked under SpecAuth): a profile request with a token is answered
\* with no record other than the one whose password matched when the token
\* was minted, whatever deletes, registrations and updates came in between.
C18_TokenKeepsIdentity ==
    [][\A q \in Pending :
          (ProfileLookup(q, FALSE) /\ q.token \in DOMAIN authed /\ res'.status = 200) =>
              \A user \in res'.body.profile : user.id = authed[q.token]]_vars

\* C19 (checked under SpecPut): a PUT that names an existing row, with an
\* email no other row holds and no storage error, is answered 200 "Student
\* updated successfully"; the row keeps its id and has the six payload
\* values, the password as the plaintext of the payload; every other row,
\* the ids assigned and the session object are unchanged.
C19_UpdateReplacesRow ==
    [][\A id \in Ids, body \in Bodies :
          (/\ PutStudent(id, body, FALSE)
           /\ id \in RowIds(students)
           /\ ~\E r \in students : r.email = body.email /\ r.id # id) =>
              /\ Is(res', 200, "Student updated successfully")
              /\ \E r \in students' :
                    /\ r.id = id
                    /\ r.firstName = body.firstName /\ r.lastName = body.lastName
                    /\ r.username = body.username /\ r.email = body.email
                    /\ r.contact = body.contact
                    /\ ~r.password.bcrypt /\ r.password.text = body.password
              /\ Cardinality(students') = Cardinality(students)
              /\ \A r \in students : r.id # id => r \in students'
              /\ seq' = seq
              /\ sessions' = sessions]_vars

\* a registered row was rewritten by a PUT while a session is held and
\* another registered row is stored
C19_Witness ==
    /\ Is(res, 200, "Student updated successfully")
    /\ \E r1, r2 \in students :
          r1.firstName = "Bob" /\ ~r1.password.bcrypt /\ r2.password.bcrypt
    /\ DOMAIN sessions # {}

\* C20 (checked under SpecPut): a PUT that names an existing row, with an
\* email that a row other than the named one holds, is answered 500 "Update
\* error" and leaves every row as it was.
C20_UpdateEmailConflict ==
    [][\A id \in Ids, body \in Bodies :
          (/\ PutStudent(id, body, FALSE)
           /\ id \in RowIds(students)
           /\ \E r \in students : r.email = body.email /\ r.id # id) =>
              /\ res' = Json(500, [NoBody EXCEPT !.message = "Update error", !.error = TRUE])
              /\ students' = students]_vars

\* an update was refused while two rows are stored
C20_Witness ==
    /\ Is(res, 500, "Update error")
    /\ Cardinality(students) = 2

\* C21: POST /api/students looks the email up as register does: when a row
\* holds the email it answers 400 "Student already exists" and writes nothing;
\* otherwise it runs the INSERT, and an INSERT the table accepts adds exactly
\* one row, whose stored password is the plaintext of the body and whose id,
\* a new one, is the id of the answer.
C21_CreateChecksThenInserts ==
    [][/\ \A body \in Bodies :
             CreateStudent(body, FALSE) =>
                 IF SelectByEmail(students, body.email) # {}
                 THEN /\ Is(res', 400, "Student already exists")
                      /\ students' = students /\ inflight' = inflight
                 ELSE /\ sent' = 0 /\ students' = students
                      /\ \E p \in Pending' : p.op = "create" /\ p.body = body
                                               /\ inflight' = inflight (+) One(p)
       /\ \A p \in Pending :
             (CreateStudentInsert(p, FALSE) /\ SelectByEmail(students, p.body.email) = {}) =>
                 /\ Is(res', 200, "Student inserted")
                 /\ res'.body.id \notin RowIds(students)
                 /\ \E r \in students' :
                        /\ students' = students \cup {r} /\ r \notin students
                        /\ r.id = res'.body.id
                        /\ r.email = p.body.email
                        /\ r.password = Text(p.body.password)
                        /\ ~r.password.bcrypt /\ r.password.text = p.body.password]_vars

\* a second student was created and the answer carries the id of its row,
\* which stores the plaintext
C21_Witness ==
    /\ Is(res, 200, "Student inserted")
    /\ Cardinality(students) = 2
    /\ \E r \in students : r.id = res.body.id /\ ~r.password.bcrypt

C23_RegisterFailureWritesNothing ==
    [][/\ \A body \in Bodies :
             Register(body, TRUE) =>
                 /\ Is(res', 500, "DB error") /\ sent' = 1
                 /\ students' = students /\ seq' = seq /\ inflight' = inflight
       /\ \A p \in Pending, salt \in Salts :
             RegisterHash(p, salt, TRUE) =>
                 /\ Is(res', 500, "Hash error") /\ sent' = 1
                 /\ students' = students /\ seq' = seq /\ inflight' = inflight (-) One(p)
       /\ \A p \in Pending, err \in BOOLEAN :
             (RegisterInsert(p, err) /\ (err \/ SelectByEmail(students, p.body.email) # {})) =>
                 /\ Is(res', 500, "Insert error") /\ sent' = 1
                 /\ students' = students /\ seq' = seq /\ inflight' = inflight (-) One(p)]_vars

\* the hashing of a register request failed while the table held a row, and
\* that row is all the table holds
C23_Witness ==
    /\ Is(res, 500, "Hash error") /\ sent = 1
    /\ Cardinality(students) = 1 /\ seq = 1
    /\ inflight = EmptyBag

\* C24: a step changes sessions only when it is the end of a login whose
\* password matched, answered 200 with the token it stored; every other step
\* of every endpoint, a failed login included, leaves sessions exactly as it
\* was.
C24_OnlyLoginWritesSessions ==
    [][sessions' # sessions =>
          \E p \in Pending, now \in Times :
              /\ LoginCompare(p, now, FALSE)
              /\ BcryptCompare(p.password, p.user.password)
              /\ res'.status = 200 /\ res'.body.token = Token(p.email, now)
              /\ sessions' = SessionsPut(sessions, res'.body.token, p.email)]_vars

\* a login was refused after another had succeeded, and the one session of the
\* successful login is all that sessions holds
C24_Witness ==
    /\ Is(res, 401, "Invalid credentials") /\ sent = 1
    /\ Cardinality(DOMAIN sessions) = 1
    /\ inflight = EmptyBag

\* C25: in every reachable state every entry of sessions maps a token
\* "<email>-<timestamp>" to exactly that email, and a step never changes or
\* removes the value of a token that is there, also when a login produces a
\* token an earlier login produced.
C25_SessionMapsTokenToEmail ==
    /\ [](\A t \in DOMAIN sessions : \E now \in Times : t = Token(sessions[t], now))
    /\ [][\A t \in DOMAIN sessions :
              t \in DOMAIN sessions' /\ sessions'[t] = sessions[t]]_vars

\* two emails have a session each, and one of the tokens was produced twice
C25_Witness ==
    /\ Cardinality(DOMAIN sessions) = 2
    /\ \E t \in DOMAIN sessions : t \in DOMAIN mints /\ mints[t]

\* C26: the id a successful register or create answers with is the id of no
\* stored row and of no row that was deleted, so it differs from every id
\* assigned before; an update or a delete that names the id of a deleted
\* record changes no row.
C26_IdsNeverReused ==
    [][/\ \A p \in Pending, err \in BOOLEAN :
             ((RegisterInsert(p, err) \/ CreateStudentInsert(p, err)) /\ res'.status = 200) =>
                 /\ res'.body.id \notin RowIds(students)
                 /\ res'.body.id \in DOMAIN deleted => ~deleted[res'.body.id]
                 /\ RowIds(students') = RowIds(students) \cup {res'.body.id}
       /\ \A id \in DOMAIN deleted, body \in Bodies, err \in BOOLEAN :
             (deleted[id] /\ (PutStudent(id, body, err) \/ DeleteStudent(id, err))) =>
                 students' = students]_vars

\* after a record was deleted a new record got an id, and it is the only row
C26_Witness ==
    /\ \E id \in DOMAIN deleted : deleted[id] /\ id # res.body.id
    /\ res.status = 200 /\ sent = 1
    /\ RowIds(students) = {res.body.id}

\* C27: whatever list fetches of an instance of useStudents are in flight
\* together, the state students of the instance is the response of the fetch
\* that resolved last, in whatever order the fetches were issued, until a
\* successful delete filters it: the last response to land wins.
C27_LastFetchToLandWins ==
    \A i \in Inst :
        (landed[i].any /\ ~landed[i].filtered) => hookStudents[i] = landed[i].data

\* the fetch on mount of the form's instance, issued first, resolved after the
\* re-fetch of a submit and replaced its list with another, and no fetch of
\* the instance is left in flight
C27_Witness ==
    /\ landed["form"].any /\ landed["form"].over /\ landed["form"].fn = "fetchStudents"
    /\ hookStudents["form"] = landed["form"].data
    /\ \A c \in Waiting : ~(c.inst = "form" /\ c.pc = "fetch")

IdsOf(list) == {list[k].id : k \in DOMAIN list}

\* C28 as stated: once deleteStudent(id) has succeeded in an instance of
\* useStudents, no entry with that id is in the state students of the
\* instance in any later state, whatever list fetches were in flight.
C28_DeletedNeverReappears ==
    \A i \in Inst : \A id \in gone[i] : id \notin IdsOf(hookStudents[i])

\* C28, amended: once deleteStudent(id) has succeeded in an instance of
\* useStudents, no entry with that id is in the state students of the
\* instance until a list fetch of the instance resolves; a fetch that was in
\* flight and resolves after the delete with a response that holds the entry
\* puts the entry back.
C28_DeletedUntilFetchLands ==
    [][/\ \A c \in Waiting, o \in DeleteOutcomes :
             (deleteStudent(c, o) /\ o.resolved /\ o.status = 200) =>
                 c.id \notin IdsOf(hookStudents'[c.inst])
       /\ \A i \in Inst : \A id \in gone[i] :
             (id \notin IdsOf(hookStudents[i]) /\ id \in IdsOf(hookStudents'[i])) =>
                 \E c \in Waiting, o \in GetOutcomes :
                     /\ fetchStudents(c, o) /\ c.inst = i
                     /\ o.resolved /\ id \in IdsOf(o.data)]_vars

\* a delete has succeeded, no fetch was issued since, and a fetch that was in
\* flight has put the entry back
C28_Witness ==
    \E i \in Inst : \E id \in gone[i] :
        /\ id \in IdsOf(hookStudents[i])
        /\ \A c \in Waiting : c.inst # i

\* C29: in every reachable state the error slot of an instance of useStudents
\* is null when no request of the instance has been rejected, and otherwise
\* holds the message of the call (fetch, add, update or delete) whose request
\* was rejected last; once it is not null no step sets it to null, whatever
\* succeeds later.
C29_ErrorIsLastFailure ==
    /\ [](\A i \in Inst :
             hookError[i] = IF lastFailed[i].message = "" THEN NoError
                            ELSE Error(lastFailed[i].message))
    /\ [][\A i \in Inst : ~hookError[i].null => ~hookError'[i].null]_vars

\* the delete of an entry was rejected, a request of the list's instance
\* succeeded after that, and the slot still holds the message of the delete
C29_Witness ==
    /\ lastFailed["list"].since
    /\ hookError["list"] = Error("Failed to delete student")

\* C30: when the re-fetch of a form submit that added or updated a student
\* resolves, the state students that StudentList shows is the re-fetched
\* list, the same list as the form's hook holds.
C30_ListShowsSubmit ==
    [][\A c \in Waiting, o \in GetOutcomes :
          (fetchStudents(c, o) /\ c.submit /\ o.resolved) =>
              /\ hookStudents'["list"] = o.data
              /\ hookStudents'["list"] = hookStudents'["form"]]_vars

====
